---- MODULE Spec2Model ----
(***************************************************************************)
(* Model of n8n-nodes-cribops: the polling trigger (CribopsTrigger.trigger *)
(* in polling mode), the remote message queue it talks to through          *)
(* CribopsHttp.pollQueue / acknowledgeMessages, and the action node's      *)
(* execute loop with its Poll Queue operation.                             *)
(*                                                                         *)
(* JavaScript runs one callback at a time: every action below is one       *)
(* synchronous stretch of code between two awaits, or one step of the      *)
(* remote platform (answering a request that is in flight).                *)
(***************************************************************************)
EXTENDS Naturals, Integers, Sequences, FiniteSets, TLC

\* ---------------------------------------------------------------- bounds
\* Concurrent invocations of poll() that may be in flight at once.
MaxTicks == 2
\* Messages the remote platform creates in one behaviour (ids 1..MaxMsgs).
MaxMsgs == 2
\* The node parameter batchSize (limit of one fetch) used in the model.
BatchSize == 2
\* Input items of one execute call of the action node.
MaxItems == 2
\* longest identifier string (conversation id) passed to replyToConversation
MaxIdLen == 2
\* distinct values of Date.now() a create may see
MaxStamps == 2
MaxTyping == 3
\* Events that reach the node in one behaviour of NodeSpec: calls of the host
\* (a registration method, a webhook request, trigger(), manualTriggerFunction(),
\* closeFunction(), execute()), firings of the interval timer and messages the
\* platform creates.
NodeEvents == 4

Ticks == 1..MaxTicks
MsgIds == 1..MaxMsgs

VARIABLES
  \* --- remote platform
  queue,        \* pending messages, oldest first: Seq([id, hdrs])
  nextId,       \* id the platform gives the next message it creates
  ackedEver,    \* ids the platform deleted on a successful acknowledge
  \* --- trigger() closure
  started,      \* trigger() has run
  timerArmed,   \* intervalId is set and not cleared
  closed,       \* closeFunction has run
  hostError,    \* a rejection of poll() reached the host (unhandled)
  manualTick,   \* slot of the poll() that manualTriggerFunction called, 0: none
  manualState,  \* the promise of manualTriggerFunction(): "none" | "pending" | "returned"
  \* --- one entry per invocation of poll() in flight (slot reused when settled)
  pc,           \* "idle" | "fetching" | "fetched" | "acking" | "ackresp"
  resp,         \* answer in flight to the tick: [ok, batch]
  log,          \* what the tick did so far, in order: Seq([ev, ids])
  \* --- observations
  emittedEver,  \* ids handed to the workflow by this.emit so far
  \* --- one call of the action node's execute()
  items,        \* the operation of each input item: Seq("pollQueue" | "other")
  continueOnFail, \* this.continueOnFail()
  idx,          \* the loop variable i (1-based), 0 before the call
  execPc,       \* "idle" | "item" | "fetched" | "acking" | "ackresp" | "returned" | "thrown"
  results,      \* the results array: Seq([item, error, msgs])
  execBatch,    \* the messages the running Poll Queue operation fetched
  execAcked,    \* ids deleted by the acknowledge calls of this execute()
  execResp,     \* answer in flight to the running Poll Queue operation: [ok, batch]
  \* --- one call of the trigger node's webhook()
  hookCfg,      \* node parameters: [secretToken, eventTypes, agentId]
  hookReq,      \* the inbound request: [headers, body]
  hookPc,       \* "idle" | "received" | "done"
  hookOut,      \* what webhook() returned: [webhookResponse, workflowData]
  \* --- one call of replyToConversation()
  replyIn,      \* parameters, input item and upstream trigger record of the call
  replyPc,      \* "idle" | "called" | "awaiting" | "answered" | "returned" | "thrown"
  replyNet,     \* the requests sent on the network so far, in order
  replyAns,     \* the answer in flight to the pending request: [ok, status, json, body]
  replyErr,     \* the error the call threw, NoError if none
  \* --- the trigger node's registration methods (webhookMethods.default)
  store,        \* getWorkflowStaticData('node'): [webhookId, agentId]
  lifePc,       \* the method awaiting its credentials: "idle" | "checkExists" | "create" | "delete"
  lifeRet,      \* what the last completed method returned: "none" | "true" | "false" | "error"
  lifeNet,      \* the requests the methods sent to the platform, in order
  \* --- one call of CribopsHttp.makeRequest()
  reqIn,        \* [build]: which build of the client runs
  reqPc,        \* "idle" | "called" | "awaiting" | "answered" | "returned" | "thrown"
  reqAns,       \* the outcome of fetch(): [net, status, json, body]
  reqOut,       \* what the call returned or threw
  \* --- an item travelling from the webhook emission through action steps
  chainItem,    \* json of the current item: [response_webhook, orig]
  chainPc,      \* "idle" | "emitted" | "typing" | "replied"
  chainSteps,   \* Send Typing Indicator steps done so far
  chainUp,      \* the reply's lookup of the node 'Cribops Trigger': "throws" | "record"
  chainTarget,  \* the callback URL the reply resolved, Undef if none
  \* --- the events of NodeSpec
  events        \* events that reached the node so far (counted in NodeSpec, 0 elsewhere)

remoteVars == <<queue, nextId, ackedEver>>
closureVars == <<started, timerArmed, closed, hostError>>
manualVars == <<manualTick, manualState>>
tickVars == <<pc, resp, log>>
obsVars == <<emittedEver>>

pollVars == <<remoteVars, closureVars, manualVars, tickVars, obsVars>>

execVars == <<items, continueOnFail, idx, execPc, results, execBatch, execAcked,
              execResp>>

hookVars == <<hookCfg, hookReq, hookPc, hookOut>>

replyVars == <<replyIn, replyPc, replyNet, replyAns, replyErr>>

lifeVars == <<store, lifePc, lifeRet, lifeNet>>

reqVars == <<reqIn, reqPc, reqAns, reqOut>>

chainVars == <<chainItem, chainPc, chainSteps, chainUp, chainTarget>>

vars == <<pollVars, execVars, hookVars, replyVars, lifeVars, reqVars, chainVars, events>>

\* ------------------------------------------------------- pure helpers
SeqToSet(s) == { s[i] : i \in 1..Len(s) }

Min(a, b) == IF a < b THEN a ELSE b

NoResp == [ok |-> FALSE, batch |-> <<>>]

\* ------------------------------------------------ the remote platform
\* GET /api/queue/{tenantId}/poll?limit= : up to `limit` pending messages,
\* oldest first. Polling does not remove anything.
RemoteBatch(q, limit) == SubSeq(q, 1, Min(limit, Len(q)))

\* POST /api/queue/{tenantId}/acknowledge : delete the named messages.
RemoteDelete(q, ids) == SelectSeq(q, LAMBDA m : m.id \notin ids)

\* ------------------------------------------------------- poll() body
EmitEv(m) == [ev |-> "emit", ids |-> <<m.id>>]
AckEv(ids) == [ev |-> "ack", ids |-> ids]

\* (faulty variant: only the first message's id is acknowledged)
MessageIdsFirstOnly(batch) == <<batch[1].id>>
\* const messageIds = messages.map(msg => msg.id)
MessageIds(batch) == [i \in 1..Len(batch) |-> batch[i].id]

\* Building the emitted item reads message.data.headers['x-cribops-tenant-id']:
\* a message whose data has no headers object raises a TypeError there.
Raises(m) == ~m.hdrs

\* for (const message of messages) { ...; this.emit(...) } : the emissions made
\* until the loop ends or a message raises.
RECURSIVE EmitLoop(_)
EmitLoop(batch) ==
  IF batch = <<>> THEN <<>>
  ELSE IF Raises(Head(batch)) THEN <<>>
  ELSE <<EmitEv(Head(batch))>> \o EmitLoop(Tail(batch))

\* (faulty variant: a message that raises does not end the tick)
LoopNeverThrows(batch) == FALSE
\* Some message of the batch raises inside the loop.
LoopThrows(batch) == \E i \in 1..Len(batch) : Raises(batch[i])

\* (faulty variant: the acknowledge request is sent before the emission loop)
TickEventsAckFirst(batch) == <<AckEv(MessageIds(batch))>> \o EmitLoop(batch)
\* The order of a whole successful tick: emit every message, then acknowledge.
TickEvents(batch) == EmitLoop(batch) \o <<AckEv(MessageIds(batch))>>

\* (faulty variant: the catch block of poll() rethrows)
PollCatchRethrowsAlways == TRUE
\* catch (error) { console.error('Polling error:', error) } : not rethrown.
PollCatchRethrows == FALSE
\* catch (ackError) { console.error(...) } : not rethrown.
AckCatchRethrows == FALSE
\* manualTriggerFunction = async () => { await poll(); }
ManualAwaitsPoll == TRUE
\* (faulty variant: closeFunction leaves the interval running)
ArmedAfterCloseKept(armed) == armed
\* closeFunction: if (intervalId) clearInterval(intervalId) : the timer is off.
ArmedAfterClose(armed) == FALSE

EventIds(l, e) == UNION { SeqToSet(l[i].ids) : i \in { j \in 1..Len(l) : l[j].ev = e } }
EventCount(l, e) == Cardinality({ j \in 1..Len(l) : l[j].ev = e })

EmittedIn(t) == EventIds(log[t], "emit")
AckCalls(t) == EventCount(log[t], "ack")
AckIdsOf(t) == EventIds(log[t], "ack")

InFlight(t) == pc[t] # "idle"
Free(t) == pc[t] = "idle"
\* the slot a new invocation of poll() takes
FreeSlot == CHOOSE t \in Ticks : Free(t) /\ \A u \in Ticks : Free(u) => t <= u

\* poll() up to its first await: the fetch request is sent.
StartTick(t) ==
  /\ pc' = [pc EXCEPT ![t] = "fetching"]
  /\ resp' = [resp EXCEPT ![t] = NoResp]
  /\ log' = [log EXCEPT ![t] = <<>>]

\* The promise of poll() settles: the invocation is over. A manual invocation
\* that awaits this poll() returns now; an error that was rethrown reaches the
\* host.
Settle(t, rethrown) ==
  /\ pc' = [pc EXCEPT ![t] = "idle"]
  /\ resp' = [resp EXCEPT ![t] = NoResp]
  /\ log' = [log EXCEPT ![t] = <<>>]
  /\ hostError' = (hostError \/ rethrown)
  /\ manualTick' = IF manualTick = t THEN 0 ELSE manualTick
  /\ manualState' = IF manualTick = t THEN "returned" ELSE manualState

\* ------------------------------------------------------ JavaScript values
\* A property that is absent reads as undefined; the other values the
\* handlers read here are strings.
Undef == [t |-> "undefined"]
Str(s) == [t |-> "string", v |-> s]

\* ToBoolean: undefined and the empty string are falsy.
Truthy(x) == x.t = "string" /\ x.v # ""

\* a || b
Or(a, b) == IF Truthy(a) THEN a ELSE b

HeaderNames == {"x-cribops-signature", "x-webhook-signature", "authorization"}

BodyKeys == {"type", "event_type", "message", "content", "conversation_id",
             "conversationId", "thread_id", "response_webhook",
             "responseWebhook", "callback_url"}

\* webhook() has not been called.
HookIdle ==
  /\ hookCfg = [secretToken |-> Undef, eventTypes |-> {}, agentId |-> "a1"]
  /\ hookReq = [headers |-> [h \in HeaderNames |-> Undef],
                body |-> [k \in BodyKeys |-> Undef]]
  /\ hookPc = "idle"
  /\ hookOut = [webhookResponse |-> Undef, workflowData |-> <<>>]

NoError == [kind |-> "none", text |-> "", raw |-> <<>>, status |-> 0, detail |-> {}]
NoBody == [errors |-> Undef, message |-> Undef]
NoAnswer == [ok |-> FALSE, status |-> 0, json |-> FALSE, body |-> NoBody]

\* replyToConversation() has not been called.
ReplyIdle ==
  /\ replyIn = [agentId |-> <<>>, conversationId |-> <<>>, message |-> "",
                item |-> Undef, upstream |-> Undef]
  /\ replyPc = "idle"
  /\ replyNet = <<>>
  /\ replyAns = NoAnswer
  /\ replyErr = NoError

EmptyStore == [webhookId |-> Undef, agentId |-> Undef]

\* No registration method has run.
LifeIdle ==
  /\ store = EmptyStore
  /\ lifePc = "idle"
  /\ lifeRet = "none"
  /\ lifeNet = <<>>

NoFetch == [net |-> TRUE, status |-> 0, json |-> FALSE, body |-> [message |-> Undef, error |-> Undef]]
NoOutcome == [kind |-> "none", class |-> "", text |-> "", status |-> 0,
              detail |-> "", cause |-> ""]

\* makeRequest() has not been called.
ReqIdle ==
  /\ reqIn = [build |-> "utils"]
  /\ reqPc = "idle"
  /\ reqAns = NoFetch
  /\ reqOut = NoOutcome

\* No item is travelling.
ChainIdle ==
  /\ chainItem = Undef
  /\ chainPc = "idle"
  /\ chainSteps = 0
  /\ chainUp = "throws"
  /\ chainTarget = Undef

\* (faulty variant: the handler stamps the agent into the static data)
WebhookStaticDataTouched(st) == [st EXCEPT !.agentId = Str("a1")]

\* webhook(), poll() and execute() never call getWorkflowStaticData.
WebhookStaticData(st) == st

\* ------------------------------------------------------------ actions
\* execute() has not been called.
ExecIdle ==
  /\ items = <<>>
  /\ continueOnFail = FALSE
  /\ idx = 0
  /\ execPc = "idle"
  /\ results = <<>>
  /\ execBatch = <<>>
  /\ execAcked = {}
  /\ execResp = NoResp

\* trigger() has not been called.
TriggerIdle ==
  /\ ackedEver = {}
  /\ started = FALSE
  /\ timerArmed = FALSE
  /\ closed = FALSE
  /\ hostError = FALSE
  /\ manualTick = 0
  /\ manualState = "none"
  /\ pc = [t \in Ticks |-> "idle"]
  /\ resp = [t \in Ticks |-> NoResp]
  /\ log = [t \in Ticks |-> <<>>]
  /\ emittedEver = {}

Init ==
  /\ LifeIdle
  /\ ReqIdle
  /\ ChainIdle
  /\ queue = <<>>
  /\ nextId = 1
  /\ TriggerIdle
  /\ ExecIdle
  /\ HookIdle
  /\ ReplyIdle
  /\ events = 0

\* The steps that start with an event reaching the node (a message created, a
\* call of the host, the timer firing) are written in two parts: what the
\* step does (...Body), and the step as it is taken where events are not
\* counted. NodeSpec takes the same bodies and counts them.
\*
\* The platform creates a message (with or without a headers object).
EnqueueBody ==
  /\ nextId <= MaxMsgs
  /\ \E h \in BOOLEAN : queue' = Append(queue, [id |-> nextId, hdrs |-> h])
  /\ nextId' = nextId + 1
  /\ UNCHANGED <<ackedEver, closureVars, manualVars, tickVars, obsVars>>
  /\ UNCHANGED <<execVars, hookVars, replyVars, lifeVars, reqVars, chainVars>>

Enqueue ==
  /\ EnqueueBody
  /\ UNCHANGED events

\* trigger() in polling mode: poll(); intervalId = setInterval(poll, ...).
TriggerBody ==
  /\ ~started
  /\ started' = TRUE
  /\ StartTick(FreeSlot)
  /\ timerArmed' = TRUE
  /\ UNCHANGED <<remoteVars, closed, hostError, manualVars, obsVars>>
  /\ UNCHANGED <<execVars, hookVars, replyVars, lifeVars, reqVars, chainVars>>

Trigger ==
  /\ TriggerBody
  /\ UNCHANGED events

\* The interval timer fires and calls poll().
TimerFireBody ==
  /\ timerArmed
  /\ ~hostError
  /\ \E t \in Ticks : Free(t)
  /\ StartTick(FreeSlot)
  /\ UNCHANGED <<remoteVars, closureVars, manualVars, obsVars>>
  /\ UNCHANGED <<execVars, hookVars, replyVars, lifeVars, reqVars, chainVars>>

TimerFire ==
  /\ TimerFireBody
  /\ UNCHANGED events

\* The host calls manualTriggerFunction(), which calls poll().
ManualTriggerBody ==
  /\ started
  /\ ~hostError
  /\ manualTick = 0
  /\ \E t \in Ticks : Free(t)
  /\ StartTick(FreeSlot)
  /\ manualTick' = FreeSlot
  /\ manualState' = IF ManualAwaitsPoll THEN "pending" ELSE "returned"
  /\ UNCHANGED <<remoteVars, closureVars, obsVars>>
  /\ UNCHANGED <<execVars, hookVars, replyVars, lifeVars, reqVars, chainVars>>

ManualTrigger ==
  /\ ManualTriggerBody
  /\ UNCHANGED events

\* The host calls closeFunction(): clearInterval(intervalId).
CloseBody ==
  /\ started
  /\ ~closed
  /\ closed' = TRUE
  /\ timerArmed' = ArmedAfterClose(timerArmed)
  /\ UNCHANGED <<remoteVars, started, hostError, manualVars, tickVars, obsVars>>
  /\ UNCHANGED <<execVars, hookVars, replyVars, lifeVars, reqVars, chainVars>>

Close ==
  /\ CloseBody
  /\ UNCHANGED events

\* The platform answers a fetch with the pending messages.
RemotePollOk(t) ==
  /\ pc[t] = "fetching"
  /\ pc' = [pc EXCEPT ![t] = "fetched"]
  /\ resp' = [resp EXCEPT ![t] = [ok |-> TRUE, batch |-> RemoteBatch(queue, BatchSize)]]
  /\ UNCHANGED <<remoteVars, closureVars, manualVars, log, obsVars>>
  /\ UNCHANGED <<execVars, hookVars, replyVars, lifeVars, reqVars, chainVars>>
  /\ UNCHANGED events

\* The fetch fails (non-2xx answer or no connection): pollQueue throws.
RemotePollFail(t) ==
  /\ pc[t] = "fetching"
  /\ pc' = [pc EXCEPT ![t] = "fetched"]
  /\ resp' = [resp EXCEPT ![t] = NoResp]
  /\ UNCHANGED <<remoteVars, closureVars, manualVars, log, obsVars>>
  /\ UNCHANGED <<execVars, hookVars, replyVars, lifeVars, reqVars, chainVars>>
  /\ UNCHANGED events

\* poll() resumes after `await cribopsHttp.pollQueue(...)`.
PollReturn(t) ==
  /\ pc[t] = "fetched"
  /\ IF ~resp[t].ok
     THEN \* outer catch
          /\ Settle(t, PollCatchRethrows)
          /\ UNCHANGED emittedEver
     ELSE IF Len(resp[t].batch) = 0
     THEN /\ Settle(t, FALSE)
          /\ UNCHANGED emittedEver
     ELSE IF LoopThrows(resp[t].batch)
     THEN \* a message raised inside the loop: outer catch, no acknowledge
          /\ Settle(t, PollCatchRethrows)
          /\ emittedEver' = emittedEver \cup EventIds(EmitLoop(resp[t].batch), "emit")
     ELSE \* every message emitted; the acknowledge request is sent
          /\ pc' = [pc EXCEPT ![t] = "acking"]
          /\ log' = [log EXCEPT ![t] = TickEvents(resp[t].batch)]
          /\ emittedEver' = emittedEver \cup EventIds(TickEvents(resp[t].batch), "emit")
          /\ UNCHANGED <<resp, hostError, manualVars>>
  /\ UNCHANGED <<remoteVars, started, timerArmed, closed>>
  /\ UNCHANGED <<execVars, hookVars, replyVars, lifeVars, reqVars, chainVars>>
  /\ UNCHANGED events

\* The platform performs the acknowledge: the named messages are deleted.
RemoteAckOk(t) ==
  /\ pc[t] = "acking"
  /\ pc' = [pc EXCEPT ![t] = "ackresp"]
  /\ resp' = [resp EXCEPT ![t].ok = TRUE]
  /\ queue' = RemoteDelete(queue, AckIdsOf(t))
  /\ ackedEver' = ackedEver \cup (AckIdsOf(t) \cap { queue[i].id : i \in 1..Len(queue) })
  /\ UNCHANGED <<nextId, closureVars, manualVars, log, obsVars>>
  /\ UNCHANGED <<execVars, hookVars, replyVars, lifeVars, reqVars, chainVars>>
  /\ UNCHANGED events

\* The acknowledge fails: acknowledgeMessages throws, nothing is deleted.
RemoteAckFail(t) ==
  /\ pc[t] = "acking"
  /\ pc' = [pc EXCEPT ![t] = "ackresp"]
  /\ resp' = [resp EXCEPT ![t].ok = FALSE]
  /\ UNCHANGED <<remoteVars, closureVars, manualVars, log, obsVars>>
  /\ UNCHANGED <<execVars, hookVars, replyVars, lifeVars, reqVars, chainVars>>
  /\ UNCHANGED events

\* poll() resumes after `await cribopsHttp.acknowledgeMessages(...)`.
AckReturn(t) ==
  /\ pc[t] = "ackresp"
  /\ Settle(t, ~resp[t].ok /\ AckCatchRethrows /\ PollCatchRethrows)
  /\ UNCHANGED <<remoteVars, started, timerArmed, closed, emittedEver>>
  /\ UNCHANGED <<execVars, hookVars, replyVars, lifeVars, reqVars, chainVars>>
  /\ UNCHANGED events

Next ==
  \/ Enqueue
  \/ Trigger
  \/ TimerFire
  \/ ManualTrigger
  \/ Close
  \/ \E t \in Ticks : RemotePollOk(t)
  \/ \E t \in Ticks : RemotePollFail(t)
  \/ \E t \in Ticks : PollReturn(t)
  \/ \E t \in Ticks : RemoteAckOk(t)
  \/ \E t \in Ticks : RemoteAckFail(t)
  \/ \E t \in Ticks : AckReturn(t)

Spec == Init /\ [][Next]_vars

\* The fairness the scheduling gives: the interval timer fires, the event loop
\* runs every continuation that is ready, and the platform answers every request
\* and does not fail the same kind of request forever.
Fairness ==
  /\ WF_vars(TimerFire)
  /\ \A t \in Ticks : SF_vars(RemotePollOk(t))
  /\ \A t \in Ticks : WF_vars(PollReturn(t))
  /\ \A t \in Ticks : SF_vars(RemoteAckOk(t))
  /\ \A t \in Ticks : WF_vars(AckReturn(t))

FairSpec == Init /\ [][Next]_vars /\ Fairness

\* ------------------------------------------- the action node: execute()
\* pollQueue(): messages.map(...) reads message.data.headers[...] of every
\* message, so a message without headers raises before the acknowledge.
ProcessThrows(batch) == \E i \in 1..Len(batch) : ~batch[i].hdrs

\* results.push({ json: responseData, pairedItem: { item: i } })
OkEntry(i, ids) == [item |-> i, error |-> FALSE, msgs |-> ids]
\* results.push({ json: { error: error.message }, pairedItem: { item: i } })
ErrorEntry(i) == [item |-> i, error |-> TRUE, msgs |-> <<>>]

\* i++ and the loop test: after the last item execute() returns [results].
Advance ==
  /\ idx' = idx + 1
  /\ execPc' = IF idx + 1 > Len(items) THEN "returned" ELSE "item"

\* Faulty variant: with continue-on-fail on, a failing item is skipped and
\* leaves no entry.
ItemFailsSkipsEntry ==
  IF continueOnFail
  THEN /\ results' = results
       /\ Advance
  ELSE /\ execPc' = "thrown"
       /\ UNCHANGED <<results, idx>>

\* The operation of item i threw: catch (error) of the loop body.
ItemFails ==
  IF continueOnFail
  THEN /\ results' = Append(results, ErrorEntry(idx))
       /\ Advance
  ELSE /\ execPc' = "thrown"
       /\ UNCHANGED <<results, idx>>

\* The inputs of one execute() call, and the queue it finds on the platform.
ExecInit ==
  /\ LifeIdle
  /\ ReqIdle
  /\ ChainIdle
  /\ \E n \in 0..MaxMsgs : \E h \in [1..n -> BOOLEAN] :
       /\ queue = [i \in 1..n |-> [id |-> i, hdrs |-> h[i]]]
       /\ nextId = n + 1
  /\ TriggerIdle
  /\ \E n \in 1..MaxItems : items \in [1..n -> {"pollQueue", "other"}]
  /\ continueOnFail \in BOOLEAN
  /\ idx = 0
  /\ execPc = "idle"
  /\ results = <<>>
  /\ execBatch = <<>>
  /\ execAcked = {}
  /\ execResp = NoResp
  /\ HookIdle
  /\ ReplyIdle
  /\ events = 0

\* The host calls execute(): the loop starts with the first item. The
\* operation of the item runs up to its first await: for Poll Queue the fetch
\* request is sent.
ExecCallBody ==
  /\ execPc = "idle"
  /\ idx' = 1
  /\ execPc' = IF Len(items) = 0 THEN "returned" ELSE "item"
  /\ UNCHANGED <<lifeVars, reqVars, chainVars>>
  /\ UNCHANGED <<hookVars, replyVars, pollVars, items, continueOnFail, results,
                 execBatch, execAcked, execResp>>

ExecCall ==
  /\ ExecCallBody
  /\ UNCHANGED events

\* An operation other than Poll Queue succeeds.
OpOtherOk ==
  /\ execPc = "item" /\ items[idx] = "other"
  /\ results' = Append(results, OkEntry(idx, <<>>))
  /\ Advance
  /\ UNCHANGED <<lifeVars, reqVars, chainVars>>
  /\ UNCHANGED <<hookVars, replyVars, pollVars, items, continueOnFail, execBatch,
                 execAcked, execResp>>
  /\ UNCHANGED events

\* An operation other than Poll Queue throws (validation or transport error).
OpOtherFail ==
  /\ execPc = "item" /\ items[idx] = "other"
  /\ ItemFails
  /\ UNCHANGED <<lifeVars, reqVars, chainVars>>
  /\ UNCHANGED <<hookVars, replyVars, pollVars, items, continueOnFail, execBatch,
                 execAcked, execResp>>
  /\ UNCHANGED events

\* The platform answers the fetch of pollQueue() with the pending messages;
\* execute() stays suspended until the answer is delivered.
ExecRemotePollOk ==
  /\ execPc = "item" /\ items[idx] = "pollQueue"
  /\ execPc' = "fetched"
  /\ execResp' = [ok |-> TRUE, batch |-> RemoteBatch(queue, BatchSize)]
  /\ UNCHANGED <<lifeVars, reqVars, chainVars>>
  /\ UNCHANGED <<hookVars, replyVars, pollVars, items, continueOnFail, idx, results,
                 execBatch, execAcked>>
  /\ UNCHANGED events

\* The fetch of pollQueue() fails (non-2xx answer or no connection).
ExecRemotePollFail ==
  /\ execPc = "item" /\ items[idx] = "pollQueue"
  /\ execPc' = "fetched"
  /\ execResp' = NoResp
  /\ UNCHANGED <<lifeVars, reqVars, chainVars>>
  /\ UNCHANGED <<hookVars, replyVars, pollVars, items, continueOnFail, idx, results,
                 execBatch, execAcked>>
  /\ UNCHANGED events

\* pollQueue() resumes after `await cribopsHttp.pollQueue(...)` with the
\* rejection of a failed fetch: the operation throws.
OpPollFetchFail ==
  /\ execPc = "fetched" /\ ~execResp.ok
  /\ ItemFails
  /\ execResp' = NoResp
  /\ UNCHANGED <<lifeVars, reqVars, chainVars>>
  /\ UNCHANGED <<hookVars, replyVars, pollVars, items, continueOnFail, execBatch,
                 execAcked>>
  /\ UNCHANGED events

\* pollQueue() resumes after `await cribopsHttp.pollQueue(...)` with the batch
\* the platform answered: the messages are processed and, when there are any,
\* the acknowledge request is sent.
OpPollFetchOk ==
  /\ execPc = "fetched" /\ execResp.ok
  /\ LET batch == execResp.batch IN
       IF ProcessThrows(batch)
       THEN ItemFails /\ UNCHANGED execBatch
       ELSE IF Len(batch) = 0
       THEN /\ results' = Append(results, OkEntry(idx, <<>>))
            /\ Advance
            /\ UNCHANGED execBatch
       ELSE /\ execPc' = "acking"
            /\ execBatch' = batch
            /\ UNCHANGED <<results, idx>>
  /\ execResp' = NoResp
  /\ UNCHANGED <<lifeVars, reqVars, chainVars>>
  /\ UNCHANGED <<hookVars, replyVars, pollVars, items, continueOnFail, execAcked>>
  /\ UNCHANGED events

\* The platform performs the acknowledge of pollQueue(): the named messages
\* are deleted; execute() stays suspended until the answer is delivered.
ExecRemoteAckOk ==
  /\ execPc = "acking"
  /\ execPc' = "ackresp"
  /\ execResp' = [ok |-> TRUE, batch |-> <<>>]
  /\ queue' = RemoteDelete(queue, SeqToSet(MessageIds(execBatch)))
  /\ ackedEver' = ackedEver \cup SeqToSet(MessageIds(execBatch))
  /\ execAcked' = execAcked \cup SeqToSet(MessageIds(execBatch))
  /\ UNCHANGED <<hookVars, replyVars, lifeVars, reqVars, chainVars>>
  /\ UNCHANGED <<nextId, closureVars, manualVars, tickVars, obsVars, items,
                 continueOnFail, idx, results, execBatch>>
  /\ UNCHANGED events

\* The acknowledge of pollQueue() fails: nothing is deleted.
ExecRemoteAckFail ==
  /\ execPc = "acking"
  /\ execPc' = "ackresp"
  /\ execResp' = NoResp
  /\ UNCHANGED <<lifeVars, reqVars, chainVars>>
  /\ UNCHANGED <<hookVars, replyVars, pollVars, items, continueOnFail, idx, results,
                 execBatch, execAcked>>
  /\ UNCHANGED events

\* pollQueue() resumes after `await cribopsHttp.acknowledgeMessages(...)`: the
\* operation returns the messages.
OpPollAckOk ==
  /\ execPc = "ackresp" /\ execResp.ok
  /\ results' = Append(results, OkEntry(idx, MessageIds(execBatch)))
  /\ execBatch' = <<>>
  /\ execResp' = NoResp
  /\ Advance
  /\ UNCHANGED <<lifeVars, reqVars, chainVars>>
  /\ UNCHANGED <<hookVars, replyVars, pollVars, items, continueOnFail, execAcked>>
  /\ UNCHANGED events

\* pollQueue() resumes with the rejection of a failed acknowledge; the error
\* is logged and the operation returns the messages all the same.
OpPollAckFail ==
  /\ execPc = "ackresp" /\ ~execResp.ok
  /\ results' = Append(results, OkEntry(idx, MessageIds(execBatch)))
  /\ execBatch' = <<>>
  /\ execResp' = NoResp
  /\ Advance
  /\ UNCHANGED <<lifeVars, reqVars, chainVars>>
  /\ UNCHANGED <<hookVars, replyVars, pollVars, items, continueOnFail, execAcked>>
  /\ UNCHANGED events

ExecNext ==
  \/ Enqueue
  \/ ExecCall
  \/ OpOtherOk
  \/ OpOtherFail
  \/ ExecRemotePollOk
  \/ ExecRemotePollFail
  \/ OpPollFetchFail
  \/ OpPollFetchOk
  \/ ExecRemoteAckOk
  \/ ExecRemoteAckFail
  \/ OpPollAckOk
  \/ OpPollAckFail

ExecSpec == ExecInit /\ [][ExecNext]_vars

\* ------------------------------------------------- webhook(): one request
\* The token the handler validates:
\* headers['x-cribops-signature'] || headers['authorization'].
ReceivedToken(headers) ==
  Or(headers["x-cribops-signature"], headers["authorization"])

\* The secret check passes: no secret is configured, or the received token is
\* strictly equal to it.
SecretCheckPasses(cfg, req) ==
  ~Truthy(cfg.secretToken) \/ ReceivedToken(req.headers) = cfg.secretToken

Authorized(cfg, req) == SecretCheckPasses(cfg, req)

\* eventTypes.length > 0 && body.type && !eventTypes.includes(body.type)
FilteredOut(cfg, req) ==
  /\ cfg.eventTypes # {}
  /\ Truthy(req.body["type"])
  /\ req.body["type"].v \notin cfg.eventTypes

OutputKeys == BodyKeys \cup {"agent_id"}

\* { ...body, agent_id, conversation_id: ..., response_webhook: ... }
OutputData(cfg, req) ==
  [k \in OutputKeys |->
     IF k = "agent_id" THEN Str(cfg.agentId)
     ELSE IF k = "conversation_id"
       THEN Or(Or(req.body["conversation_id"], req.body["conversationId"]),
               req.body["thread_id"])
     ELSE IF k = "response_webhook"
       THEN Or(Or(req.body["response_webhook"], req.body["responseWebhook"]),
               req.body["callback_url"])
     ELSE req.body[k]]

UnauthorizedResponse == [status |-> 401, body |-> [error |-> "Unauthorized"]]
FilteredResponse == [status |-> 200, body |-> [received |-> TRUE, filtered |-> TRUE]]

\* The value webhook() returns. A return value without webhookResponse leaves
\* the reply to the host (responseMode 'onReceived').
WebhookResult(cfg, req) ==
  IF ~Authorized(cfg, req)
    THEN [webhookResponse |-> UnauthorizedResponse, workflowData |-> <<>>]
  ELSE IF FilteredOut(cfg, req)
    THEN [webhookResponse |-> FilteredResponse, workflowData |-> <<>>]
  ELSE [webhookResponse |-> Undef,
        workflowData |-> <<[json |-> OutputData(cfg, req),
                            headers |-> req.headers]>>]

Secret == "s3cret"

HeaderSets ==
  { [h \in HeaderNames |->
       IF h = "x-cribops-signature" THEN a
       ELSE IF h = "x-webhook-signature" THEN b ELSE c] :
    a \in {Undef, Str(Secret), Str("wrong")},
    b \in {Undef, Str(Secret)},
    c \in {Undef, Str(Secret), Str("Bearer " \o Secret), Str("wrong")} }

BodySets ==
  [type : {Undef, Str("message"), Str("other")},
   event_type : {Undef, Str("other")},
   message : {Undef, Str("hi")},
   content : {Undef, Str("hi")},
   conversation_id : {Undef, Str("c1")},
   conversationId : {Undef, Str("c2")},
   thread_id : {Undef, Str("c1"), Str("c3")},
   response_webhook : {Undef, Str("https://cb/1")},
   responseWebhook : {Undef},
   callback_url : {Undef, Str("https://cb/2")}]

\* A request arrives at a node with some configuration.
WebhookInit ==
  /\ LifeIdle
  /\ ReqIdle
  /\ ChainIdle
  /\ queue = <<>>
  /\ nextId = 1
  /\ TriggerIdle
  /\ ExecIdle
  /\ ReplyIdle
  /\ hookCfg \in [secretToken : {Undef, Str(Secret)},
                  eventTypes : {{}, {"message"}},
                  agentId : {"a1"}]
  /\ hookReq \in [headers : HeaderSets, body : BodySets]
  /\ hookPc = "received"
  /\ hookOut = [webhookResponse |-> Undef, workflowData |-> <<>>]
  /\ events = 0

\* The host calls webhook() for the request.
Webhook ==
  /\ hookPc = "received"
  /\ hookOut' = WebhookResult(hookCfg, hookReq)
  /\ hookPc' = "done"
  /\ UNCHANGED <<hookCfg, hookReq>>
  /\ store' = WebhookStaticData(store)
  /\ UNCHANGED <<pollVars, execVars, replyVars, lifePc, lifeRet, lifeNet, reqVars, chainVars>>
  /\ UNCHANGED events

WebhookNext == Webhook

WebhookSpec == WebhookInit /\ [][WebhookNext]_vars

\* ------------------------------------------------- claims: the trigger
QueueIds == { queue[i].id : i \in 1..Len(queue) }
BatchIds(t) == { resp[t].batch[i].id : i \in 1..Len(resp[t].batch) }

\* The step is tick t resuming after its fetch.
ResumesAfterFetch(t) == pc[t] = "fetched" /\ pc'[t] # "fetched"
\* The step is tick t resuming after its acknowledge.
ResumesAfterAck(t) == pc[t] = "ackresp" /\ pc'[t] # "ackresp"
\* The step settles tick t.
Settles(t) == pc[t] # "idle" /\ pc'[t] = "idle"
\* The step starts a tick in slot t.
Starts(t) == pc[t] = "idle" /\ pc'[t] # "idle"
\* The ids this.emit hands to the workflow in the step.
StepEmits(t) ==
  IF ResumesAfterFetch(t) /\ resp[t].ok
  THEN EventIds(EmitLoop(resp[t].batch), "emit") ELSE {}

\* C1: in every tick acknowledge is called at most once, and when it is called
\* its message_ids are exactly the ids the tick emitted.
C1_AckExactlyEmitted ==
  \A t \in Ticks :
    /\ AckCalls(t) <= 1
    /\ AckCalls(t) = 1 => AckIdsOf(t) = EmittedIn(t) /\ AckIdsOf(t) = BatchIds(t)

\* The scenario of the spec: a batch of two, one acknowledge naming both.
C1_Witness ==
  \E t \in Ticks :
    /\ pc[t] = "acking"
    /\ Len(resp[t].batch) = 2
    /\ AckCalls(t) = 1
    /\ Cardinality(AckIdsOf(t)) = 2

\* C2: within a tick the acknowledge call comes after the emission of every
\* message of the fetched batch: every id it names was emitted earlier in the
\* same tick.
C2_EmitBeforeAck ==
  \A t \in Ticks : \A j \in 1..Len(log[t]) :
    log[t][j].ev = "ack" =>
      /\ \A id \in SeqToSet(log[t][j].ids) \cup BatchIds(t) :
           \E i \in 1..(j - 1) : log[t][i] = [ev |-> "emit", ids |-> <<id>>]
      /\ \A i \in 1..Len(log[t]) : log[t][i].ev = "emit" => i < j

C2_Witness ==
  \E t \in Ticks :
    /\ Len(log[t]) = 3
    /\ log[t][1].ev = "emit" /\ log[t][2].ev = "emit" /\ log[t][3].ev = "ack"

\* C3: once a message id was successfully acknowledged (deleted by the
\* platform), no tick emits that message again.
C3_NoEmitAfterAck ==
  [][\A t \in Ticks : StepEmits(t) \cap ackedEver = {}]_vars

\* C4: ticks never overlap: at most one invocation of poll() is in flight.
C4_NoOverlap == Cardinality({ t \in Ticks : InFlight(t) }) <= 1

\* C5: a tick whose fetch or acknowledge failed settles without stopping the
\* loop and without an error reaching the host: the timer stays as it was, its
\* next tick can start and starts with a fresh fetch; a tick whose fetch failed
\* emits nothing and calls no acknowledge.
C5_FailureKeepsLoop ==
  [][\A t \in Ticks :
       /\ (ResumesAfterFetch(t) /\ ~resp[t].ok) =>
            /\ Settles(t)
            /\ emittedEver' = emittedEver
            /\ \A u \in Ticks : pc'[u] # "acking" \/ pc[u] = "acking"
            /\ timerArmed' = timerArmed /\ ~hostError'
       /\ (ResumesAfterAck(t) /\ ~resp[t].ok) =>
            /\ Settles(t)
            /\ timerArmed' = timerArmed /\ ~hostError'
       /\ (timerArmed /\ \E u \in Ticks : Free(u)) => ENABLED TimerFire
       /\ Starts(t) => pc'[t] = "fetching" /\ resp'[t] = NoResp /\ log'[t] = <<>>
    ]_vars

\* A tick whose fetch failed and a tick whose acknowledge failed are about to
\* resume, with the timer armed.
C5_Witness ==
  /\ timerArmed
  /\ \E t \in Ticks : pc[t] = "fetched" /\ ~resp[t].ok
  /\ \E t \in Ticks : pc[t] = "ackresp" /\ ~resp[t].ok

\* C6: with the timer running and the platform answering, every message pending
\* in the remote queue is eventually emitted to the workflow.
C6_PendingEventuallyEmitted ==
  \A id \in MsgIds : (timerArmed /\ id \in QueueIds) ~> (id \in emittedEver \/ closed)

\* The same for the well-formed messages alone: a message that has its headers
\* is not emitted either while a message without headers is queued before it.
WellFormedPending(id) == \E i \in 1..Len(queue) : queue[i].id = id /\ queue[i].hdrs
C6_WellFormedEventuallyEmitted ==
  \A id \in MsgIds :
    (timerArmed /\ WellFormedPending(id)) ~> (id \in emittedEver \/ closed)

\* As long as no queued message lacks its headers, every pending message is
\* eventually emitted: the fairness above is enough for delivery.
C6_DeliveredWhenAllWellFormed ==
  \/ <>(\E i \in 1..Len(queue) : ~queue[i].hdrs)
  \/ C6_PendingEventuallyEmitted

\* C7: every message delivered to a tick has, when the tick settles, been either
\* acknowledged or marked failed by that tick, never both and never neither.
AckedBy(t) == IF pc[t] = "ackresp" /\ resp[t].ok THEN AckIdsOf(t) ELSE {}
MarkedFailedBy(t) == EventIds(log[t], "fail")
C7_AckedOrFailed ==
  [][\A t \in Ticks : Settles(t) =>
       \A id \in BatchIds(t) : (id \in AckedBy(t)) # (id \in MarkedFailedBy(t))]_vars

\* C9: once closeFunction has run no timer-driven tick starts (only a manual
\* invocation can still call poll()); closing leaves the ticks in flight as they
\* are, and each of them can still resume, emit and acknowledge.
C9_CloseStopsTimerOnly ==
  [][/\ closed => \A t \in Ticks : Starts(t) => (manualTick = 0 /\ manualTick' = t)
     /\ (~closed /\ closed') => (UNCHANGED tickVars /\ ~timerArmed')
     /\ closed => ~timerArmed
     /\ closed => \A t \in Ticks :
          /\ pc[t] = "fetched" => ENABLED PollReturn(t)
          /\ pc[t] = "acking" => ENABLED RemoteAckOk(t)
          /\ pc[t] = "ackresp" => ENABLED AckReturn(t)
    ]_vars

C9_Witness ==
  /\ closed
  /\ \E t \in Ticks : t # manualTick /\ pc[t] = "ackresp" /\ resp[t].ok

\* C10: a manual invocation runs exactly one tick and no other tick of the
\* trigger runs as part of it: while manualTriggerFunction() has not returned,
\* the tick it awaits is the only tick in flight, and it returns in the step
\* that settles that tick, after the tick's emission pass and acknowledge.
C10_ManualRunsOneTick ==
  [][/\ manualTick' # 0 => (manualState' = "pending" /\ pc'[manualTick'] # "idle")
     /\ manualState' = "pending" =>
          /\ manualTick' # 0
          /\ \A u \in Ticks \ {manualTick'} : pc'[u] = "idle"
     /\ (manualState = "pending" /\ manualState' # "pending") =>
          /\ manualState' = "returned"
          /\ Settles(manualTick)
          /\ pc[manualTick] \in {"fetched", "ackresp"}
     /\ (manualState # "pending" /\ manualState' = "pending") =>
          /\ Starts(manualTick')
          /\ \A u \in Ticks \ {manualTick'} : pc'[u] = pc[u]
    ]_vars

\* ------------------------------------------------ claims: Poll Queue
\* C8: the Poll Queue action never acknowledges a message before its payload is
\* handed to the workflow: when execute() ends in failure, none of the messages
\* it fetched has been acknowledged.
C8_NoAckWhenExecuteFails == execPc = "thrown" => execAcked = {}

\* ---------------------------------------------------- webhook(): claims
\* The acceptance rule as stated: a signature header (x-cribops-signature or
\* x-webhook-signature) equals the secret, or the Authorization header equals
\* 'Bearer <secret>'.
CredentialAccepted ==
  \/ hookReq.headers["x-cribops-signature"] = hookCfg.secretToken
  \/ hookReq.headers["x-webhook-signature"] = hookCfg.secretToken
  \/ hookReq.headers["authorization"] = Str("Bearer " \o hookCfg.secretToken.v)

SecretConfigured == Truthy(hookCfg.secretToken)

Rejected401 ==
  hookOut.webhookResponse = UnauthorizedResponse /\ hookOut.workflowData = <<>>

SilentlyFiltered ==
  hookOut.webhookResponse = FilteredResponse /\ hookOut.workflowData = <<>>

ReceivedResponse == [status |-> 200, body |-> [received |-> TRUE]]

EmittedOne ==
  hookOut.webhookResponse = ReceivedResponse /\ Len(hookOut.workflowData) = 1

\* C11: with a secret configured, a request that carries no matching
\* signature (neither a signature header equal to the secret nor
\* 'Authorization: Bearer <secret>') is answered 401 {error: Unauthorized}
\* and emits no event, whatever its body.
C11_UnauthorizedRejected ==
  (hookPc = "done" /\ SecretConfigured /\ ~CredentialAccepted) => Rejected401

\* C12: with a secret configured, a request is accepted if and only if a
\* signature header equals the secret or the Authorization header equals
\* 'Bearer <secret>'.
C12_AcceptedIffCredential ==
  (hookPc = "done" /\ SecretConfigured) => (~Rejected401 <=> CredentialAccepted)

\* A request whose authorization is beyond dispute: no secret is configured,
\* or the stated rule and the handler's check both accept it.
AuthorizedRequest ==
  ~SecretConfigured \/ (CredentialAccepted /\ Authorized(hookCfg, hookReq))

\* The field-name variants of the event type, in order.
EventTypeVariants == <<"type", "event_type">>

RECURSIVE FirstPresent(_, _)
FirstPresent(obj, keys) ==
  IF keys = <<>> THEN Undef
  ELSE IF obj[Head(keys)] # Undef THEN obj[Head(keys)]
  ELSE FirstPresent(obj, Tail(keys))

EventTypeOf(body) == FirstPresent(body, EventTypeVariants)

\* C13: for an authorized request, a non-empty allow-list and an event type
\* (first present variant) that is present and not in the list give
\* 200 {received, filtered} and no event; a request without event type, or an
\* empty allow-list, is never filtered.
C13_FilterByEventType ==
  (hookPc = "done" /\ AuthorizedRequest) =>
    LET et == EventTypeOf(hookReq.body) IN
      /\ (hookCfg.eventTypes # {} /\ et # Undef /\ et.v \notin hookCfg.eventTypes)
           => SilentlyFiltered
      /\ (hookCfg.eventTypes = {} \/ et = Undef) => ~SilentlyFiltered

\* C14: every request ends in exactly one of: 401 without event,
\* 200 {received, filtered} without event, or one event emitted together with
\* the response 200 {received: true}.
C14_ThreeOutcomes ==
  hookPc = "done" => (Rejected401 \/ SilentlyFiltered \/ EmittedOne)

\* C15: each canonical field of the emitted event takes the value of the first
\* present alias key: message from message | content, conversation_id from
\* conversation_id | conversationId | thread_id.
C15_AliasNormalisation ==
  (hookPc = "done" /\ Len(hookOut.workflowData) = 1) =>
    LET ev == hookOut.workflowData[1].json IN
      /\ ev["message"] = FirstPresent(hookReq.body, <<"message", "content">>)
      /\ ev["conversation_id"] =
           FirstPresent(hookReq.body, <<"conversation_id", "conversationId", "thread_id">>)

\* ------------------------------------------- replyToConversation(): one call
\* Identifier strings are sequences of characters.
IdChars == {"c", " ", "{", "}"}
IdStrings == UNION { [1..n -> IdChars] : n \in 0..MaxIdLen }
AgentIds == { <<>>, <<"c">>, <<"{", "{">> }

\* s.includes('{{') || s.includes('}}')
ContainsOpenOnly(s) ==
  \E i \in 1..(Len(s) - 1) : s[i] = "{" /\ s[i + 1] = "{"

ContainsTemplate(s) ==
  \E i \in 1..(Len(s) - 1) :
    \/ s[i] = "{" /\ s[i + 1] = "{"
    \/ s[i] = "}" /\ s[i + 1] = "}"

\* !s || s.trim() === ''
IsBlank(s) == \A i \in 1..Len(s) : s[i] = " "

\* workflowData.$('Cribops Trigger') gave a record with item.json; a lookup
\* that throws is caught and ignored.
UpstreamFound(in) == in.upstream.state = "record"

\* (faulty variant: the pass-through bag is consulted before the item's field)
ResolveWebhookBagFirst(in) ==
  LET w == IF in.item.bag.present /\ Truthy(in.item.bag.response_webhook)
             THEN in.item.bag.response_webhook
             ELSE in.item.response_webhook
  IN IF ~Truthy(w) /\ UpstreamFound(in) THEN in.upstream.response_webhook ELSE w

\* responseWebhook after the three lookups.
ResolveWebhook(in) ==
  LET direct == in.item.response_webhook
      w == IF ~Truthy(direct) /\ in.item.bag.present
             THEN in.item.bag.response_webhook
             ELSE direct
  IN IF ~Truthy(w) /\ UpstreamFound(in) THEN in.upstream.response_webhook ELSE w

\* The check the call makes on its identifiers before any dispatch.
ValidationError(in) ==
  IF ContainsTemplate(in.conversationId)
    THEN [kind |-> "NodeOperationError",
          text |-> "Conversation ID contains unevaluated expression",
          raw |-> in.conversationId, status |-> 0, detail |-> {}]
  ELSE IF IsBlank(in.conversationId)
    THEN [kind |-> "NodeOperationError",
          text |-> "Conversation ID is required but was empty",
          raw |-> <<>>, status |-> 0, detail |-> {}]
  ELSE NoError

\* userId / organizationId: the item's field, else the upstream record's,
\* else ''.
ResolveId(in, key) ==
  LET own == Or(in.item[key], Str(""))
  IN IF Truthy(own) THEN own
     ELSE IF UpstreamFound(in) THEN Or(in.upstream[key], Str("")) ELSE own

\* The form-encoded POST to the resolved callback URL.
CallbackRequest(in) ==
  [target |-> [kind |-> "callback", url |-> ResolveWebhook(in).v],
   method |-> "POST",
   contentType |-> "application/x-www-form-urlencoded",
   authorization |-> "Bearer apiToken",
   body |-> [conversation_id |-> in.conversationId,
             content |-> in.message,
             message_id |-> "uuid",
             timestamp |-> "now",
             user_id |-> ResolveId(in, "user_id").v,
             organization_id |-> ResolveId(in, "organization_id").v]]

\* cribopsHttp.sendMessage(agentId, fallbackMessageData):
\* POST /webhooks/agents/{agentId}/message with a JSON body.
AgentRequest(in) ==
  [target |-> [kind |-> "agent", agentId |-> in.agentId],
   method |-> "POST",
   contentType |-> "application/json",
   authorization |-> "Bearer apiToken",
   body |-> [id |-> "uuid", content |-> in.message,
             conversationId |-> in.conversationId, agentId |-> in.agentId,
             type |-> "agent_response", timestamp |-> "now"]]

\* if (!responseWebhook): the agent endpoint, otherwise the callback URL.
Dispatch(in) ==
  IF ~Truthy(ResolveWebhook(in)) THEN AgentRequest(in) ELSE CallbackRequest(in)

\* (faulty variant: a failed callback dispatch is retried through the agent
\* endpoint)
RetryViaAgentOnFailure(req, ans) == req.target.kind = "callback" /\ ~ans.ok

\* The catch block of the callback dispatch sends nothing.
RetryViaAgent(req, ans) == FALSE

\* The two builds of the transport client in the source tree.
ClientBuilds == {"utils", "part_001"}

\* The content of an error response body (await response.text()).
RawText(body) ==
  { body[k].v : k \in { f \in DOMAIN body : Truthy(body[f]) } }

\* The detail makeRequest puts after 'HTTP <status>: ': the raw text, or in
\* the later build errorJson.message || errorJson.error || errorText.
ErrorDetail(build, body) ==
  IF build = "utils" THEN RawText(body)
  ELSE IF Truthy(body.message) THEN {body.message.v}
  ELSE IF "error" \in DOMAIN body /\ Truthy(body["error"]) THEN {body["error"].v}
  ELSE RawText(body)

\* error.response.body?.errors || error.response.body?.message ||
\* 'Unknown validation error'
ValidationDetail(body) ==
  IF Truthy(body.errors) THEN {body.errors.v}
  ELSE IF Truthy(body.message) THEN {body.message.v}
  ELSE {"Unknown validation error"}

\* (faulty variant: only the status is reported, the remote detail is dropped)
DispatchErrorStatusOnly(in, req, ans, build) ==
  [kind |-> IF req.target.kind = "agent" THEN "Error" ELSE "NodeOperationError",
   text |-> "Request failed", raw |-> <<>>, status |-> ans.status, detail |-> {}]

\* The error a failed dispatch is turned into: its message holds the status
\* and the detail listed here. On the agent path a 2xx answer whose body is
\* not JSON fails too: 'Failed to send message to agent <id>: Error: Request
\* failed: SyntaxError ...', with no status in it.
DispatchError(in, req, ans, build) ==
  IF req.target.kind = "agent" /\ ans.ok
    THEN [kind |-> "Error", text |-> "Failed to send message to agent",
          raw |-> in.agentId, status |-> 0, detail |-> {}]
  ELSE IF req.target.kind = "agent"
    THEN [kind |-> "Error", text |-> "Failed to send message to agent",
          raw |-> in.agentId, status |-> ans.status,
          detail |-> IF ans.status = 0 THEN {} ELSE ErrorDetail(build, ans.body)]
  ELSE IF ans.status = 422
    THEN [kind |-> "NodeOperationError", text |-> "Validation error (422)",
          raw |-> in.conversationId, status |-> 422,
          detail |-> ValidationDetail(ans.body)]
  ELSE [kind |-> "NodeOperationError", text |-> "Failed to reply to conversation",
        raw |-> <<>>, status |-> 0, detail |-> {}]

Bodies422 ==
  [errors : {Undef, Str("conversation_id is invalid")},
   message : {Undef, Str("Validation failed")}]

ItemSets ==
  [response_webhook : {Undef, Str(""), Str("https://cb/item")},
   bag : {[present |-> FALSE, response_webhook |-> Undef],
          [present |-> TRUE, response_webhook |-> Undef],
          [present |-> TRUE, response_webhook |-> Str("https://cb/bag")]},
   user_id : {Undef, Str("u1")},
   organization_id : {Undef, Str("o1")}]

UpstreamSets ==
  [state : {"throws", "noitem"}, response_webhook : {Undef},
   user_id : {Undef}, organization_id : {Undef}]
  \cup
  [state : {"record"}, response_webhook : {Undef, Str("https://cb/up")},
   user_id : {Undef}, organization_id : {Undef}]
  \cup
  [state : {"record"}, response_webhook : {Undef, Str("https://cb/up")},
   user_id : {Str("u9")}, organization_id : {Str("o9")}]

\* One call with some parameters, input item and upstream record.
ReplyInit ==
  /\ LifeIdle
  /\ ReqIdle
  /\ ChainIdle
  /\ queue = <<>>
  /\ nextId = 1
  /\ TriggerIdle
  /\ ExecIdle
  /\ HookIdle
  /\ replyIn \in [agentId : AgentIds, conversationId : IdStrings,
                  message : {"hi"}, item : ItemSets, upstream : UpstreamSets]
  /\ replyPc = "called"
  /\ replyNet = <<>>
  /\ replyAns = NoAnswer
  /\ replyErr = NoError
  /\ events = 0

\* The call up to its first await: resolution, validation, dispatch.
ReplyCall ==
  /\ replyPc = "called"
  /\ IF ValidationError(replyIn) # NoError
       THEN /\ replyErr' = ValidationError(replyIn)
            /\ replyPc' = "thrown"
            /\ UNCHANGED replyNet
       ELSE /\ replyNet' = Append(replyNet, Dispatch(replyIn))
            /\ replyPc' = "awaiting"
            /\ UNCHANGED replyErr
  /\ UNCHANGED <<replyIn, replyAns>>
  /\ UNCHANGED <<pollVars, execVars, hookVars, lifeVars, reqVars, chainVars>>
  /\ UNCHANGED events

\* The endpoint answers the pending request with success: 200 with a JSON
\* body, 200 with a body that is not JSON, or 204 with no body.
RemoteReplyOk ==
  /\ replyPc = "awaiting"
  /\ \E a \in {[status |-> 200, json |-> TRUE], [status |-> 200, json |-> FALSE],
                [status |-> 204, json |-> FALSE]} :
       replyAns' = [ok |-> TRUE, status |-> a.status, json |-> a.json, body |-> NoBody]
  /\ replyPc' = "answered"
  /\ UNCHANGED <<replyIn, replyNet, replyErr>>
  /\ UNCHANGED <<pollVars, execVars, hookVars, lifeVars, reqVars, chainVars>>
  /\ UNCHANGED events

\* The pending request fails: a non-2xx status with some error body, or no
\* answer at all (0).
RemoteReplyFail ==
  /\ replyPc = "awaiting"
  /\ \/ \E st \in {0, 500} :
          replyAns' = [ok |-> FALSE, status |-> st, json |-> FALSE, body |-> NoBody]
     \/ \E b \in Bodies422 :
          replyAns' = [ok |-> FALSE, status |-> 422, json |-> TRUE, body |-> b]
  /\ replyPc' = "answered"
  /\ UNCHANGED <<replyIn, replyNet, replyErr>>
  /\ UNCHANGED <<pollVars, execVars, hookVars, lifeVars, reqVars, chainVars>>
  /\ UNCHANGED events

\* sendMessage() -> makeRequest() awaits response.json() on a 2xx answer: a
\* body that is not JSON makes it throw. helpers.httpRequest with json: false
\* on the callback path returns the body as it is.
ParseThrows(req, ans) == req.target.kind = "agent" /\ ans.ok /\ ~ans.json

\* The call resumes with the answer: it returns the response or throws.
ReplyReturn ==
  /\ replyPc = "answered"
  /\ LET req == replyNet[Len(replyNet)] IN
       IF replyAns.ok /\ ~ParseThrows(req, replyAns)
         THEN replyPc' = "returned" /\ UNCHANGED <<replyNet, replyErr>>
       ELSE IF RetryViaAgent(req, replyAns)
         THEN /\ replyNet' = Append(replyNet, AgentRequest(replyIn))
              /\ replyPc' = "awaiting"
              /\ UNCHANGED replyErr
       ELSE /\ \E build \in ClientBuilds :
                 replyErr' = DispatchError(replyIn, req, replyAns, build)
            /\ replyPc' = "thrown"
            /\ UNCHANGED replyNet
  /\ UNCHANGED <<replyIn, replyAns>>
  /\ UNCHANGED <<pollVars, execVars, hookVars, lifeVars, reqVars, chainVars>>
  /\ UNCHANGED events

ReplyNext ==
  \/ ReplyCall
  \/ RemoteReplyOk
  \/ RemoteReplyFail
  \/ ReplyReturn

ReplySpec == ReplyInit /\ [][ReplyNext]_vars

\* ------------------------------------------- replyToConversation(): claims
Dispatched == replyPc \in {"awaiting", "answered", "returned"} \/ replyNet # <<>>

\* The identifier holds unresolved template syntax: '{{' or '}}'.
HasTemplateSyntax(s) ==
  \E i \in 1..Len(s) :
    i < Len(s) /\ SubSeq(s, i, i + 1) \in { <<"{", "{">>, <<"}", "}">> }

\* The identifier is empty or whitespace only.
EmptyId(s) == SelectSeq(s, LAMBDA ch : ch # " ") = <<>>

ValidConversationId ==
  ~EmptyId(replyIn.conversationId) /\ ~HasTemplateSyntax(replyIn.conversationId)

ValidAgentId ==
  ~EmptyId(replyIn.agentId) /\ ~HasTemplateSyntax(replyIn.agentId)

\* The callback URL by the stated priority: item field, else bag, else
\* upstream record; Undef when none holds a non-empty value.
PriorityWebhook ==
  IF Truthy(replyIn.item.response_webhook) THEN replyIn.item.response_webhook
  ELSE IF replyIn.item.bag.present /\ Truthy(replyIn.item.bag.response_webhook)
    THEN replyIn.item.bag.response_webhook
  ELSE IF replyIn.upstream.state = "record" /\ Truthy(replyIn.upstream.response_webhook)
    THEN replyIn.upstream.response_webhook
  ELSE Undef

\* C16: the reply goes to the callback URL of the highest-priority source that
\* holds a non-empty response_webhook (item, then bag, then upstream record),
\* to the agent endpoint when none does, and an upstream lookup that throws
\* never makes the call fail.
C16_CallbackPriority ==
  /\ replyNet # <<>> =>
       IF PriorityWebhook = Undef
         THEN replyNet[1].target.kind = "agent"
         ELSE /\ replyNet[1].target.kind = "callback"
              /\ replyNet[1].target.url = PriorityWebhook.v
  /\ (replyPc # "called" /\ ValidConversationId) => replyNet # <<>>

C16_Witness ==
  /\ replyPc = "awaiting"
  /\ ~Truthy(replyIn.item.response_webhook)
  /\ replyIn.item.bag.present /\ ~Truthy(replyIn.item.bag.response_webhook)
  /\ replyIn.upstream.state = "record"
  /\ replyNet[1].target.kind = "callback"
  /\ replyNet[1].target.url = "https://cb/up"

NothingResolves ==
  /\ replyIn.item.response_webhook = Undef
  /\ ~replyIn.item.bag.present
  /\ replyIn.upstream.state # "record"

\* C17: with no response_webhook on the item, no bag, no upstream record and
\* valid identifiers, the call raises no validation error: it sends one JSON
\* POST to /webhooks/agents/{agentId}/message, and fails only if that request
\* fails.
C17_FallbackToAgent ==
  (replyPc # "called" /\ NothingResolves /\ ValidConversationId /\ ValidAgentId) =>
    /\ Len(replyNet) = 1
    /\ replyNet[1].target = [kind |-> "agent", agentId |-> replyIn.agentId]
    /\ replyNet[1].method = "POST"
    /\ replyNet[1].contentType = "application/json"
    /\ replyPc = "thrown" => ~replyAns.ok

CallbackFields ==
  {"conversation_id", "content", "message_id", "timestamp", "user_id",
   "organization_id"}

\* C18: a reply that passes validation makes exactly one dispatch: a
\* form-encoded, bearer-authenticated POST with the six fields to the callback
\* URL when one resolved, otherwise one JSON POST to the agent endpoint; a
\* failed callback dispatch is not followed by an agent dispatch.
C18_OneDispatch ==
  (replyPc # "called" /\ ValidConversationId) =>
    /\ Len(replyNet) = 1
    /\ replyNet[1].method = "POST"
    /\ replyNet[1].authorization = "Bearer apiToken"
    /\ IF PriorityWebhook # Undef
         THEN /\ replyNet[1].target.kind = "callback"
              /\ replyNet[1].contentType = "application/x-www-form-urlencoded"
              /\ DOMAIN replyNet[1].body = CallbackFields
              /\ replyNet[1].body.conversation_id = replyIn.conversationId
              /\ replyNet[1].body.content = replyIn.message
         ELSE /\ replyNet[1].target.kind = "agent"
              /\ replyNet[1].contentType = "application/json"

C18_Witness ==
  /\ replyPc = "thrown"
  /\ Len(replyNet) = 1
  /\ replyNet[1].target.kind = "callback"
  /\ ~replyAns.ok
  /\ replyNet[1].body.user_id = "u9"

\* C19: a conversation id containing '{{' or '}}' makes the call throw a
\* validation error that carries the raw value, with no request sent, whether
\* a callback URL resolved or not.
C19_TemplateRejected ==
  (replyPc # "called" /\ HasTemplateSyntax(replyIn.conversationId)) =>
    /\ replyPc = "thrown"
    /\ replyErr.kind = "NodeOperationError"
    /\ replyErr.raw = replyIn.conversationId
    /\ replyNet = <<>>

C19_Witness ==
  /\ replyPc = "thrown"
  /\ replyIn.conversationId = <<"}", "}">>
  /\ PriorityWebhook # Undef
  /\ replyNet = <<>>

\* C20: an empty or whitespace-only conversation id, a conversation id with
\* template syntax, or (on the agent-endpoint path) an empty or templated agent
\* reference makes the call throw a validation error, with no request sent.
C20_InvalidIdentifierFailsFast ==
  (replyPc # "called"
     /\ (~ValidConversationId \/ (PriorityWebhook = Undef /\ ~ValidAgentId))) =>
    /\ replyPc = "thrown"
    /\ replyErr.kind = "NodeOperationError"
    /\ replyNet = <<>>

\* What the remote 422 response says: its errors and message content.
RemoteDetail == RawText(replyAns.body)

\* C21: when a reply dispatch is answered with 422, the error the call throws
\* carries the status and the remote detail (errors or message content of the
\* response), on the callback path and on the agent-endpoint path.
C21_ValidationDetailSurfaced ==
  (replyPc = "thrown" /\ replyNet # <<>> /\ replyAns.status = 422) =>
    /\ replyErr.status = 422
    /\ RemoteDetail # {} => replyErr.detail \cap RemoteDetail # {}

C21_Witness ==
  /\ replyPc = "thrown"
  /\ replyAns.status = 422
  /\ replyNet[1].target.kind = "agent"
  /\ replyAns.body.errors # Undef /\ replyAns.body.message # Undef
  /\ replyErr.detail = {"Validation failed"}

\* ------------------------------------- webhookMethods.default: registration
\* `webhook_${agentId}_${Date.now()}`
WebhookIdOf(agent, at) == Str("webhook_" \o agent \o "_" \o ToString(at))

\* create: webhookData.webhookId = ...; webhookData.agentId = agentId
StoreAfterCreate(st, agent, at) ==
  [st EXCEPT !.webhookId = WebhookIdOf(agent, at), !.agentId = Str(agent)]

\* (faulty variant: delete forgets the webhookId)
StoreAfterDeleteKeepsId(st) == [st EXCEPT !.agentId = Undef]

\* delete: delete webhookData.webhookId; delete webhookData.agentId
StoreAfterDelete(st) == [st EXCEPT !.webhookId = Undef, !.agentId = Undef]

\* The requests create and delete send to the platform: the registration and
\* unregistration calls are placeholders, nothing is sent.
CreateRequests(agent, st) == <<>>
DeleteRequests(st) == <<>>

\* The host calls one of the methods; it runs up to
\* await this.getCredentials('cribopsApi').
LifeCallBody ==
  /\ lifePc = "idle"
  /\ lifePc' \in {"checkExists", "create", "delete"}
  /\ UNCHANGED <<store, lifeRet, lifeNet>>
  /\ UNCHANGED <<pollVars, execVars, hookVars, replyVars, reqVars, chainVars>>

LifeCall ==
  /\ LifeCallBody
  /\ UNCHANGED events

\* checkExists resumes: always false.
CheckExistsReturn ==
  /\ lifePc = "checkExists"
  /\ lifePc' = "idle"
  /\ lifeRet' = "false"
  /\ UNCHANGED <<store, lifeNet>>
  /\ UNCHANGED <<pollVars, execVars, hookVars, replyVars, reqVars, chainVars>>
  /\ UNCHANGED events

\* create resumes: it stores the binding and returns true.
CreateReturn ==
  /\ lifePc = "create"
  /\ lifePc' = "idle"
  /\ \E at \in 1..MaxStamps : store' = StoreAfterCreate(store, hookCfg.agentId, at)
  /\ lifeNet' = lifeNet \o CreateRequests(hookCfg.agentId, store)
  /\ lifeRet' = "true"
  /\ UNCHANGED <<pollVars, execVars, hookVars, replyVars, reqVars, chainVars>>
  /\ UNCHANGED events

\* delete resumes: true at once when nothing is stored, else it clears the
\* binding and returns true.
DeleteReturn ==
  /\ lifePc = "delete"
  /\ lifePc' = "idle"
  /\ IF ~Truthy(store.webhookId)
       THEN UNCHANGED <<store, lifeNet>>
       ELSE /\ store' = StoreAfterDelete(store)
            /\ lifeNet' = lifeNet \o DeleteRequests(store)
  /\ lifeRet' = "true"
  /\ UNCHANGED <<pollVars, execVars, hookVars, replyVars, reqVars, chainVars>>
  /\ UNCHANGED events

\* The registration methods of one trigger node alone, called in any order and
\* any number of times, for a node configured with one of four agents.
LifeInit ==
  /\ LifeIdle
  /\ ReqIdle
  /\ ChainIdle
  /\ queue = <<>>
  /\ nextId = 1
  /\ TriggerIdle
  /\ ExecIdle
  /\ ReplyIdle
  /\ hookCfg \in [secretToken : {Undef}, eventTypes : {{}},
                  agentId : {"a1", "a2", "a3", "a4"}]
  /\ hookReq = [headers |-> [h \in HeaderNames |-> Undef],
                body |-> [k \in BodyKeys |-> Undef]]
  /\ hookPc = "idle"
  /\ hookOut = [webhookResponse |-> Undef, workflowData |-> <<>>]
  /\ events = 0

LifeNext ==
  \/ LifeCall
  \/ CheckExistsReturn
  \/ CreateReturn
  \/ DeleteReturn

LifeSpec == LifeInit /\ [][LifeNext]_vars

NodeRequests ==
  { [headers |-> [h \in HeaderNames |->
                    IF h = "x-cribops-signature" THEN Str(Secret) ELSE Undef],
     body |-> [k \in BodyKeys |-> IF k = "type" THEN Str("other") ELSE Undef]] }

\* In NodeSpec every event that reaches the node is counted, and a behaviour has
\* at most NodeEvents of them; which events they are, and how the steps they
\* start interleave, is free.
\*
\* A request reaches the node's webhook URL: the first one, or the next one
\* after webhook() returned for the one before. The node's parameters stay as
\* they are.
HookReceive ==
  /\ events < NodeEvents
  /\ events' = events + 1
  /\ hookPc \in {"idle", "done"}
  /\ hookReq' \in NodeRequests
  /\ hookPc' = "received"
  /\ hookOut' = [webhookResponse |-> Undef, workflowData |-> <<>>]
  /\ UNCHANGED hookCfg
  /\ UNCHANGED <<pollVars, execVars, replyVars, lifeVars, reqVars, chainVars>>

\* The platform creates a message while the node runs.
NodeEnqueue ==
  /\ events < NodeEvents
  /\ events' = events + 1
  /\ EnqueueBody

NodeLifeCall ==
  /\ events < NodeEvents
  /\ events' = events + 1
  /\ LifeCallBody

NodeTrigger ==
  /\ events < NodeEvents
  /\ events' = events + 1
  /\ TriggerBody

\* The interval timer fires, whether or not a tick is still in flight.
NodeTimerFire ==
  /\ events < NodeEvents
  /\ events' = events + 1
  /\ TimerFireBody

\* The host calls manualTriggerFunction(), whether or not a tick is in flight.
NodeManualTrigger ==
  /\ events < NodeEvents
  /\ events' = events + 1
  /\ ManualTriggerBody

NodeClose ==
  /\ events < NodeEvents
  /\ events' = events + 1
  /\ CloseBody

NodeExecCall ==
  /\ events < NodeEvents
  /\ events' = events + 1
  /\ ExecCallBody

\* One trigger node with its registration methods, its webhook requests,
\* trigger() with its eager tick and the ticks of its timer, closeFunction() and
\* manualTriggerFunction(), and one execute() call of the action node on the
\* same queue, with continue-on-fail off (ExecSpec has both settings). The
\* ticks overlap as in Spec.
NodeInit ==
  /\ LifeIdle
  /\ ReqIdle
  /\ ChainIdle
  /\ HookIdle
  /\ ReplyIdle
  /\ TriggerIdle
  /\ \E n \in 0..1 :
       /\ queue = [i \in 1..n |-> [id |-> i, hdrs |-> TRUE]]
       /\ nextId = n + 1
  /\ items \in [1..1 -> {"pollQueue", "other"}]
  /\ continueOnFail = FALSE
  /\ idx = 0
  /\ execPc = "idle"
  /\ results = <<>>
  /\ execBatch = <<>>
  /\ execAcked = {}
  /\ execResp = NoResp
  /\ events = 0

NodeNext ==
  \/ NodeLifeCall
  \/ CheckExistsReturn
  \/ CreateReturn
  \/ DeleteReturn
  \/ HookReceive
  \/ Webhook
  \/ NodeEnqueue
  \/ NodeTrigger
  \/ NodeTimerFire
  \/ NodeManualTrigger
  \/ NodeClose
  \/ \E t \in Ticks : RemotePollOk(t)
  \/ \E t \in Ticks : RemotePollFail(t)
  \/ \E t \in Ticks : PollReturn(t)
  \/ \E t \in Ticks : RemoteAckOk(t)
  \/ \E t \in Ticks : RemoteAckFail(t)
  \/ \E t \in Ticks : AckReturn(t)
  \/ NodeExecCall
  \/ OpOtherOk
  \/ OpOtherFail
  \/ ExecRemotePollOk
  \/ ExecRemotePollFail
  \/ OpPollFetchFail
  \/ OpPollFetchOk
  \/ ExecRemoteAckOk
  \/ ExecRemoteAckFail
  \/ OpPollAckOk
  \/ OpPollAckFail

NodeSpec == NodeInit /\ [][NodeNext]_vars

\* ------------------------------------------------- registration: claims
Bound(st) == Truthy(st.webhookId)

Completes(op) == lifePc = op /\ lifePc' = "idle"

\* C22: the store holds a binding exactly after a completed create and none
\* after a completed delete, never a partial one; checkExists reports absent
\* and changes nothing; a create on a store that already holds a binding
\* leaves one binding.
C22_BindingFollowsLifecycle ==
  /\ store = EmptyStore
  /\ [][ /\ Completes("create") =>
              (Bound(store') /\ store'.agentId = Str(hookCfg.agentId) /\ lifeRet' = "true")
         /\ Completes("delete") => store' = EmptyStore
         /\ Completes("checkExists") => (lifeRet' = "false" /\ store' = store)
         /\ ~(Completes("create") \/ Completes("delete")) => store' = store
         /\ (Bound(store') <=> store'.agentId # Undef) ]_vars

C22_Witness ==
  /\ Bound(store)
  /\ lifePc = "create"
  /\ lifeRet = "true"

\* C23: a binding is recorded only together with a successful remote link
\* call; a create whose remote call fails throws and stores nothing.
C23_BindingOnlyWithRemoteLink ==
  Bound(store) => \E i \in 1..Len(lifeNet) : lifeNet[i].op = "link" /\ lifeNet[i].ok

\* C24: delete sends the remote unlink, clears the stored binding and returns
\* true, also when the unlink fails.
C24_DeleteUnlinksAndSucceeds ==
  [][ Completes("delete") =>
        /\ lifeRet' = "true"
        /\ store' = EmptyStore
        /\ Bound(store) =>
             /\ Len(lifeNet') = Len(lifeNet) + 1
             /\ lifeNet'[Len(lifeNet')].op = "unlink" ]_vars

\* C28: the stored binding changes only in the step that completes a create
\* or a delete; the steps of webhook(), of a poll tick and of execute() leave
\* it as it is, however they interleave with the registration methods.
C28_BindingWrittenOnlyByRegistration ==
  [][ store' # store => (Completes("create") \/ Completes("delete")) ]_vars

\* A binding is stored while a webhook request was handled, a tick has emitted
\* and sent its acknowledge, and execute() has returned.
C28_Witness ==
  /\ Bound(store)
  /\ hookPc = "done"
  /\ execPc = "returned"
  /\ \E t \in Ticks : pc[t] = "ackresp"

\* ------------------------------------------ CribopsHttp.makeRequest(): one call
\* await response.text() of an answer: the JSON text of the body, or text
\* that is not JSON.
TextOf(ans) ==
  IF ans.json
    THEN "{" \o (IF Truthy(ans.body.message) THEN "message:" \o ans.body.message.v \o ";" ELSE "")
             \o (IF Truthy(ans.body.error) THEN "error:" \o ans.body.error.v \o ";" ELSE "")
             \o "}"
    ELSE "<html>"

\* The detail after 'HTTP <status>: '.
HttpDetail(build, ans) ==
  IF build = "utils" THEN TextOf(ans)
  ELSE IF ans.json /\ Truthy(ans.body.message) THEN ans.body.message.v
  ELSE IF ans.json /\ Truthy(ans.body.error) THEN ans.body.error.v
  ELSE TextOf(ans)

Is2xx(ans) == ~ans.net /\ ans.status >= 200 /\ ans.status < 300

\* What makeRequest returns or throws for an outcome of fetch(). Every throw
\* inside the try block, the 'HTTP ...' error included, is caught by the
\* method's own catch and rethrown as Error('Request failed: ' + error).
MakeRequestResult(build, ans) ==
  IF ans.net
    THEN [kind |-> "thrown", class |-> "Error", text |-> "Request failed",
          status |-> 0, detail |-> "", cause |-> "TypeError: fetch failed"]
  ELSE IF ~Is2xx(ans)
    THEN [kind |-> "thrown", class |-> "Error", text |-> "Request failed",
          status |-> ans.status, detail |-> HttpDetail(build, ans),
          cause |-> "Error: HTTP"]
  ELSE IF ~ans.json
    THEN [kind |-> "thrown", class |-> "Error", text |-> "Request failed",
          status |-> 0, detail |-> "", cause |-> "SyntaxError"]
  ELSE [kind |-> "json", class |-> "", text |-> "", status |-> ans.status,
        detail |-> TextOf(ans), cause |-> ""]

NetworkFailure == NoFetch

FetchOutcomes ==
  {NetworkFailure}
  \cup [net : {FALSE}, status : {200, 204, 400, 404, 422, 500}, json : {TRUE},
        body : [message : {Undef, Str("bad input")}, error : {Undef, Str("denied")}]]
  \cup [net : {FALSE}, status : {200, 204, 400, 404, 422, 500}, json : {FALSE},
        body : [message : {Undef}, error : {Undef}]]

RequestInit ==
  /\ LifeIdle
  /\ ChainIdle
  /\ queue = <<>>
  /\ nextId = 1
  /\ TriggerIdle
  /\ ExecIdle
  /\ HookIdle
  /\ ReplyIdle
  /\ reqIn \in [build : ClientBuilds]
  /\ reqPc = "called"
  /\ reqAns = NoFetch
  /\ reqOut = NoOutcome
  /\ events = 0

\* makeRequest runs up to await fetch(url, ...).
ReqSend ==
  /\ reqPc = "called"
  /\ reqPc' = "awaiting"
  /\ UNCHANGED <<reqIn, reqAns, reqOut>>
  /\ UNCHANGED <<pollVars, execVars, hookVars, replyVars, lifeVars, chainVars>>
  /\ UNCHANGED events

\* fetch() settles: a response, or a rejection when no connection is made.
FetchSettles ==
  /\ reqPc = "awaiting"
  /\ reqAns' \in FetchOutcomes
  /\ reqPc' = "answered"
  /\ UNCHANGED <<reqIn, reqOut>>
  /\ UNCHANGED <<pollVars, execVars, hookVars, replyVars, lifeVars, chainVars>>
  /\ UNCHANGED events

\* makeRequest resumes and returns or throws.
ReqReturn ==
  /\ reqPc = "answered"
  /\ reqOut' = MakeRequestResult(reqIn.build, reqAns)
  /\ reqPc' = IF reqOut'.kind = "json" THEN "returned" ELSE "thrown"
  /\ UNCHANGED <<reqIn, reqAns>>
  /\ UNCHANGED <<pollVars, execVars, hookVars, replyVars, lifeVars, chainVars>>
  /\ UNCHANGED events

RequestNext ==
  \/ ReqSend
  \/ FetchSettles
  \/ ReqReturn

RequestSpec == RequestInit /\ [][RequestNext]_vars

\* What a caller can tell an outcome by without reading free text.
Shape(out) == [kind |-> out.kind, class |-> out.class, text |-> out.text]

\* The detail as stated: the error body's message or error field, else the
\* raw text.
StatedDetail(ans) ==
  IF ans.json /\ Truthy(ans.body.message) THEN ans.body.message.v
  ELSE IF ans.json /\ Truthy(ans.body.error) THEN ans.body.error.v
  ELSE TextOf(ans)

\* C25: a request ends in exactly one of: parsed JSON on a 2xx response; an
\* error carrying status and detail on a non-2xx response; an error carrying
\* the cause on a connection failure; and the error of a non-2xx response is
\* told apart from the error of a connection failure.
C25_ThreeOutcomes ==
  reqPc \in {"returned", "thrown"} =>
    /\ Is2xx(reqAns) => reqOut.kind = "json"
    /\ (~reqAns.net /\ ~Is2xx(reqAns)) =>
         /\ reqOut.kind = "thrown"
         /\ reqOut.status = reqAns.status
         /\ reqOut.detail = StatedDetail(reqAns)
         /\ Shape(reqOut) # Shape(MakeRequestResult(reqIn.build, NetworkFailure))
    /\ reqAns.net => (reqOut.kind = "thrown" /\ reqOut.cause # "" /\ reqOut.status = 0)

\* ------------------------------------------------ execute(): the item loop
\* The entries so far are those of items 1, 2, ... in order, one per item.
PairedInOrder == \A k \in 1..Len(results) : results[k].item = k

\* The operation of item idx is running or suspended in one of its requests.
InOperation == execPc \in {"item", "fetched", "acking", "ackresp"}

\* C26: execute() handles the items in order. With continue-on-fail on, every
\* item leaves exactly one entry paired to its index, an error entry when it
\* fails, and the loop goes on; with it off, the first failing item aborts the
\* call and no later item is processed.
C26_ItemLoopFailureHandling ==
  /\ [](PairedInOrder
        /\ (InOperation => Len(results) = idx - 1)
        /\ (execPc = "returned" /\ continueOnFail => Len(results) = Len(items))
        /\ (execPc = "thrown" => ~continueOnFail /\ Len(results) = idx - 1))
  /\ [][ /\ InOperation =>
              \/ InOperation' /\ idx' = idx /\ results' = results
              \/ /\ Len(results') = Len(results) + 1
                 /\ SubSeq(results', 1, Len(results)) = results
                 /\ results'[Len(results')].item = idx
                 /\ results'[Len(results')].error => continueOnFail
                 /\ idx' = idx + 1
                 /\ execPc' = IF idx < Len(items) THEN "item" ELSE "returned"
              \/ execPc' = "thrown" /\ ~continueOnFail /\ idx' = idx /\ results' = results
         /\ execPc = "thrown" => UNCHANGED execVars
       ]_vars

C26_Witness ==
  /\ execPc = "returned"
  /\ continueOnFail
  /\ Len(items) = 2
  /\ Len(results) = 2
  /\ results[1].error
  /\ ~results[2].error

\* ------------------------- trigger emission, typing indicators, then reply
\* The item the webhook trigger emits: the event with its response_webhook.
TriggerItem(w) == [response_webhook |-> w, orig |-> Undef]

\* sendTypingIndicator() returns { ...typingResult, _originalTriggerData:
\* inputData.json }: the answer of the platform, which has no response_webhook,
\* with the whole input item nested under the pass-through key.
TypingOutput(item) == [response_webhook |-> Undef, orig |-> item]

\* The input of replyToConversation() for an item of the chain: the item's own
\* field, the response_webhook one level down in the pass-through bag, and the
\* record of the node named 'Cribops Trigger' when the lookup finds one.
ReplyInputOf(item, up, emitted) ==
  [item |-> [response_webhook |-> item.response_webhook,
             bag |-> IF item.orig = Undef
                       THEN [present |-> FALSE, response_webhook |-> Undef]
                       ELSE [present |-> TRUE,
                             response_webhook |-> item.orig.response_webhook]],
   upstream |-> [state |-> up,
                 response_webhook |-> IF up = "record" THEN emitted ELSE Undef]]

\* The response_webhook of the trigger emission an item descends from.
RECURSIVE Original(_)
Original(item) ==
  IF item.orig = Undef THEN item.response_webhook ELSE Original(item.orig)

ChainInit ==
  /\ LifeIdle
  /\ ReqIdle
  /\ queue = <<>>
  /\ nextId = 1
  /\ TriggerIdle
  /\ ExecIdle
  /\ HookIdle
  /\ ReplyIdle
  /\ chainItem = Undef
  /\ chainPc = "idle"
  /\ chainSteps = 0
  /\ chainUp \in {"throws", "noitem", "record"}
  /\ chainTarget = Undef
  /\ events = 0

\* The webhook trigger emits an event, with or without a response_webhook.
ChainEmit ==
  /\ chainPc = "idle"
  /\ \E w \in {Undef, Str(""), Str("https://cb/1"), Str("https://cb/2")} :
       chainItem' = TriggerItem(w)
  /\ chainPc' = "item"
  /\ UNCHANGED <<chainSteps, chainUp, chainTarget>>
  /\ UNCHANGED <<pollVars, execVars, hookVars, replyVars, lifeVars, reqVars>>
  /\ UNCHANGED events

\* A Send Typing Indicator step on the current item succeeds.
ChainTyping ==
  /\ chainPc = "item"
  /\ chainSteps < MaxTyping
  /\ chainItem' = TypingOutput(chainItem)
  /\ chainSteps' = chainSteps + 1
  /\ UNCHANGED <<chainPc, chainUp, chainTarget>>
  /\ UNCHANGED <<pollVars, execVars, hookVars, replyVars, lifeVars, reqVars>>
  /\ UNCHANGED events

\* A Send Typing Indicator step throws: the workflow run ends there.
ChainTypingFail ==
  /\ chainPc = "item"
  /\ chainSteps < MaxTyping
  /\ chainPc' = "aborted"
  /\ UNCHANGED <<chainItem, chainSteps, chainUp, chainTarget>>
  /\ UNCHANGED <<pollVars, execVars, hookVars, replyVars, lifeVars, reqVars>>
  /\ UNCHANGED events

\* Reply to Conversation on the current item resolves its callback URL.
ChainReply ==
  /\ chainPc = "item"
  /\ chainTarget' = ResolveWebhook(ReplyInputOf(chainItem, chainUp, Original(chainItem)))
  /\ chainPc' = "replied"
  /\ UNCHANGED <<chainItem, chainSteps, chainUp>>
  /\ UNCHANGED <<pollVars, execVars, hookVars, replyVars, lifeVars, reqVars>>
  /\ UNCHANGED events

ChainNext ==
  \/ ChainEmit
  \/ ChainTyping
  \/ ChainTypingFail
  \/ ChainReply

ChainSpec == ChainInit /\ [][ChainNext]_vars

\* C27: after a trigger emission carrying a response_webhook and one or more
\* Send Typing Indicator steps, Reply to Conversation resolves its callback
\* URL to the response_webhook of the emission.
C27_RoutingSurvivesTyping ==
  (chainPc = "replied" /\ chainSteps >= 1 /\ Truthy(Original(chainItem)))
    => chainTarget = Original(chainItem)

\* ------------------------------------------- webhook(): the request headers
\* The node's parameters (agent, event types, additional field secretToken)
\* hold no option that asks for the headers: none is ever configured.
AttachHeaders(cfg) == FALSE

\* The header values the emitted item carries.
EmittedHeaderValues ==
  {hookOut.workflowData[1].headers[h] : h \in HeaderNames} \ {Undef}

\* C29: the emitted webhook event carries the raw request headers only when
\* the node is configured to attach them; otherwise no inbound header value,
\* the signature or Authorization header with the shared secret included,
\* reaches the workflow output.
C29_HeadersOnlyWhenConfigured ==
  (hookPc = "done" /\ Len(hookOut.workflowData) = 1 /\ ~AttachHeaders(hookCfg))
    => EmittedHeaderValues = {}

\* --------------------------------------- poll(): when acknowledge is called
\* The step is tick t calling acknowledgeMessages.
CallsAck(t) == AckCalls(t) = 0 /\ pc'[t] = "acking" /\ EventCount(log'[t], "ack") = 1

\* The position of the first message of a batch without headers, or 0.
FirstBad(b) ==
  IF \A i \in 1..Len(b) : b[i].hdrs THEN 0
  ELSE CHOOSE k \in 1..Len(b) : ~b[k].hdrs /\ \A i \in 1..(k - 1) : b[i].hdrs

\* C30: in a trigger poll tick, acknowledge is called if and only if the
\* fetched batch is non-empty and every message of it was emitted. When a
\* message of the batch raises, the tick ends with no acknowledge call
\* although the messages before it were emitted; an empty batch causes
\* neither an emission nor an acknowledge call.
C30_AckIffAllEmitted ==
  [][ \A t \in Ticks :
        /\ ~ResumesAfterFetch(t) => ~CallsAck(t)
        /\ ResumesAfterFetch(t) =>
             LET b == resp[t].batch
                 ids(n) == { b[i].id : i \in 1..n }
             IN /\ CallsAck(t) <=>
                     (resp[t].ok /\ Len(b) > 0 /\ FirstBad(b) = 0)
                /\ CallsAck(t) => emittedEver' = emittedEver \cup ids(Len(b))
                /\ (resp[t].ok /\ FirstBad(b) > 0) =>
                     /\ Settles(t)
                     /\ emittedEver' = emittedEver \cup ids(FirstBad(b) - 1)
                /\ (~resp[t].ok \/ Len(b) = 0) =>
                     /\ Settles(t)
                     /\ emittedEver' = emittedEver
    ]_vars

\* A tick fetched a well-formed message followed by one without headers and
\* is over: the first was emitted, nothing was acknowledged.
C30_Witness ==
  /\ \A t \in Ticks : pc[t] = "idle"
  /\ Len(queue) = 2
  /\ queue[1].hdrs
  /\ ~queue[2].hdrs
  /\ queue[1].id \in emittedEver
  /\ queue[2].id \notin emittedEver
  /\ ackedEver = {}

====
